---- MODULE Spec2Model ----
(***************************************************************************)
(* A model of inetman.py: the elapsed-time Timer, executeCommand, the      *)
(* interface probe wait_for_iface / connected, and connect / disconnect.   *)
(* The periodic supervisor and the shutdown hook are not in inetman.py;    *)
(* they are modelled from section 4.5 of the specification and call the    *)
(* connect / disconnect of inetman.py.                                     *)
(*                                                                         *)
(* Time is counted in whole seconds: `now` is the integer part of          *)
(* time.time().  An event that the model places between two clock ticks    *)
(* happens strictly inside that second.  Code other than time.sleep and    *)
(* the idle caller takes no time.                                          *)
(***************************************************************************)
EXTENDS Integers, Sequences, FiniteSets, TLC

VARIABLES
    now,            \* time.time(), in whole seconds
    iface,          \* os.path.exists("/sys/class/net/<dev>")
    DONT_RUN,       \* the module's dry-run flag
    config,         \* the module's RunPONConfigParser
    call,           \* history: the last call of a method of config
    timer,          \* the Timer instance: running, initSec
    run,            \* history: the Timer calls that led to this state
    timer0,         \* history: the Timer when the operation was called
    op,             \* the operation in progress, "none" between calls
    pc,             \* where it stands: "done" once it has returned,
                    \* "idle" once the caller has moved on
    w,              \* the frame of the wait_for_iface call in progress
    wres,           \* what the last wait_for_iface call returned
    wait,           \* the argument of connect
    cmds,           \* the executeCommand calls of the operation, in order
    hist,           \* history: the interface during the probe in progress
    upAt,           \* history: when the interface appeared during the probe
    exited,         \* the process has shut down
    runOffIfFails,  \* run_off_if_fails as the tick in progress read it
    runOffAtExit,   \* run_off_at_exit as the shutdown read it
    tickObs         \* history: what the last supervisor tick observed

vars == <<now, iface, DONT_RUN, config, call, timer, run, timer0, op, pc, w, wres,
          wait, cmds, hist, upAt, exited, runOffIfFails, runOffAtExit,
          tickObs>>

settingVars == <<DONT_RUN, config, call>>
probeVars == <<w, wres, hist, upAt>>
frameVars == <<op, wait, cmds, runOffIfFails, runOffAtExit, tickObs, timer0>>
timerVars == <<timer, run>>

(***************************************************************************)
(* Bounds of the model.                                                    *)
(***************************************************************************)
MaxClock == 21
MaxTimeout == 3
MaxInterval == 2
GraceTime == 2

(***************************************************************************)
(* Program constants.                                                      *)
(***************************************************************************)
ConnectedTimeout == 1
WaitTimeout == 20
PollInterval == 1

(***************************************************************************)
(* Python's None / a value: an optional is a set of at most one element.   *)
(***************************************************************************)
None == {}
Some(x) == {x}

(***************************************************************************)
(* Command lines are sequences of characters.                              *)
(***************************************************************************)
PON == <<"p", "o", "n">>
POFF == <<"p", "o", "f", "f">>
CmdLines == {PON, POFF, <<>>, <<" ">>, <<"p", " ", "-", "d">>,
             <<"p", " ", "'", "x">>, <<"'", "p", " ", "x", "'">>}

(***************************************************************************)
(* Python values: None, str, int and bool, told apart by their type.       *)
(***************************************************************************)
PyNone == [type |-> "NoneType", str |-> <<>>, int |-> 0, bool |-> FALSE]
PyStr(s) == [type |-> "str", str |-> s, int |-> 0, bool |-> FALSE]
PyInt(n) == [type |-> "int", str |-> <<>>, int |-> n, bool |-> FALSE]
PyBool(b) == [type |-> "bool", str |-> <<>>, int |-> 0, bool |-> b]

(***************************************************************************)
(* The configuration.  A set of options is a set of <<key, value>> pairs;  *)
(* a parser holds the options of DEFAULT and the named sections, each a    *)
(* pair <<name, options>>.  Of the keys of CONFIG_DEFAULTS the model keeps *)
(* the commands, the interface, one boolean and one integer.               *)
(***************************************************************************)
DEFAULT == <<"D", "E", "F", "A", "U", "L", "T">>
RUNPON == <<"r", "u", "n", "p", "o", "n">>
PPP0 == <<"p", "p", "p", "0">>

CONFIG_DEFAULTS ==
    {<<"on", PON>>, <<"off", POFF>>, <<"check_interface", PPP0>>,
     <<"run_off_if_fails", <<"t", "r", "u", "e">>>>,
     <<"cumulative_time_slot", <<"1">>>>}

DEFAULT_OPTIONS == {<<"active", RUNPON>>} \cup CONFIG_DEFAULTS

\* The parser that manageConfigFile populates when it creates the file.
CONFIG_SECTIONS ==
    [defaults |-> DEFAULT_OPTIONS, sections |-> {<<RUNPON, CONFIG_DEFAULTS>>}]

\* A file written by hand that names the interface and no command.
NoCommands ==
    [defaults |-> {<<"active", RUNPON>>, <<"check_interface", PPP0>>},
     sections |-> {<<RUNPON, {}>>}]

\* A file written by hand with one [DEFAULT] section and no 'active' option.
NoActive == [defaults |-> CONFIG_DEFAULTS, sections |-> {}]

\* The parsers manageConfigFile may return to the running program.
Configs == {CONFIG_SECTIONS, NoCommands, NoActive}

\* More files written by hand: 'active' names a section that is not there;
\* values that are empty or that no converter takes; an empty file.
MissingSection ==
    [defaults |-> {<<"active", <<"x">>>>, <<"on", PON>>,
                   <<"run_off_if_fails", <<"N", "o">>>>,
                   <<"cumulative_time_slot", <<"1", "0">>>>},
     sections |-> {<<RUNPON, {<<"on", POFF>>}>>}]

EmptyValues ==
    [defaults |-> DEFAULT_OPTIONS,
     sections |-> {<<RUNPON, {<<"on", <<>>>>,
                              <<"run_off_if_fails", <<"o", "k">>>>,
                              <<"cumulative_time_slot", <<"1", "x">>>>}>>}]

EmptyFile == [defaults |-> {}, sections |-> {}]

ConfigFiles == Configs \cup {MissingSection, EmptyValues, EmptyFile}

\* The values of an option in a set of options: none or one.
Lookup(options, key) == {p[2] : p \in {q \in options : q[1] = key}}

has_section(cfg, section) == \E s \in cfg.sections : s[1] = section

OptionsOf(cfg, section) ==
    IF section = DEFAULT
    THEN {}
    ELSE (CHOOSE s \in cfg.sections : s[1] = section)[2]

\* ConfigParser.get(section, key): the section's own option, else the one
\* of DEFAULT.
get(cfg, section, key) ==
    IF section # DEFAULT /\ ~has_section(cfg, section)
    THEN [exc |-> "NoSectionError", value |-> <<>>]
    ELSE LET own == Lookup(OptionsOf(cfg, section), key)
             found == IF own # {} THEN own ELSE Lookup(cfg.defaults, key)
         IN  IF found = {}
             THEN [exc |-> "NoOptionError", value |-> <<>>]
             ELSE [exc |-> "none", value |-> CHOOSE v \in found : TRUE]

\* ConfigParser.set(section, option, value).
set(cfg, section, option, value) ==
    LET put(options) ==
            {p \in options : p[1] # option} \cup {<<option, value>>}
    IN  IF section = DEFAULT
        THEN [cfg EXCEPT !.defaults = put(@)]
        ELSE [cfg EXCEPT !.sections =
                  {IF s[1] = section THEN <<s[1], put(s[2])>> ELSE s : s \in @}]

\* An exception exc reaches the clause `except ConfigParser.Error:`.  The
\* module imports configparser and binds no name ConfigParser, so the
\* evaluation of the clause raises NameError, which leaves the method.
except_ConfigParser_Error(exc) == "NameError"

getActiveSection(cfg) ==
    LET r == get(cfg, DEFAULT, "active")
    IN  IF r.exc # "none"
        THEN [exc |-> except_ConfigParser_Error(r.exc), section |-> DEFAULT]
        ELSE [exc |-> "none",
              section |-> IF has_section(cfg, r.value)
                          THEN r.value
                          ELSE DEFAULT]

\* str.lower(), for the letters the model uses.
lower(s) ==
    [i \in DOMAIN s |->
        CASE s[i] = "T" -> "t"
          [] s[i] = "N" -> "n"
          [] s[i] = "O" -> "o"
          [] OTHER -> s[i]]

\* ConfigParser._boolean_states[word]; a KeyError for any other word.
boolean_states(word) ==
    IF word \in {<<"1">>, <<"y", "e", "s">>, <<"t", "r", "u", "e">>,
                 <<"o", "n">>}
    THEN [exc |-> "none", value |-> PyBool(TRUE)]
    ELSE IF word \in {<<"0">>, <<"n", "o">>, <<"f", "a", "l", "s", "e">>,
                      <<"o", "f", "f">>}
         THEN [exc |-> "none", value |-> PyBool(FALSE)]
         ELSE [exc |-> "KeyError", value |-> PyNone]

Digits == <<"0", "1", "2", "3", "4", "5", "6", "7", "8", "9">>

IsDigit(c) == \E d \in DOMAIN Digits : Digits[d] = c

DigitValue(c) == (CHOOSE d \in DOMAIN Digits : Digits[d] = c) - 1

RECURSIVE Decimal(_, _)
Decimal(s, n) ==
    IF n = 0 THEN 0 ELSE Decimal(s, n - 1) * Len(Digits) + DigitValue(s[n])

\* int(s) for a string of letters and digits: a ValueError unless every
\* character is a digit.
int(s) ==
    IF s # <<>> /\ \A i \in DOMAIN s : IsDigit(s[i])
    THEN [exc |-> "none", value |-> PyInt(Decimal(s, Len(s)))]
    ELSE [exc |-> "ValueError", value |-> PyNone]

Converters == {"None", "bool", "int"}

\* `converter(value)`, or the table lookup when the converter is bool.
Convert(converter, value) ==
    IF converter = "bool" THEN boolean_states(lower(value)) ELSE int(value)

\* RunPONConfigParser.getValue(key, converter, default): the exception
\* that leaves the call ("none" when it returns) and the value returned.
getValue(cfg, key, converter, default) ==
    LET dflt == IF converter = "bool" /\ default = PyNone
                THEN PyBool(FALSE)
                ELSE default
        active == getActiveSection(cfg)
        got == get(cfg, active.section, key)
    IN  IF active.exc # "none"
        THEN [exc |-> except_ConfigParser_Error(active.exc), value |-> PyNone]
        ELSE IF got.exc # "none"
        THEN [exc |-> except_ConfigParser_Error(got.exc), value |-> PyNone]
        ELSE IF got.value = <<>>
        THEN [exc |-> "none", value |-> dflt]
        ELSE IF converter = "None"
        THEN [exc |-> "none", value |-> PyStr(got.value)]
        ELSE IF Convert(converter, got.value).exc # "none"
        THEN [exc |-> "none", value |-> dflt]
        ELSE [exc |-> "none", value |-> Convert(converter, got.value).value]

\* RunPONConfigParser.setValue(option, value): the exception that leaves
\* the call and the parser afterwards.
setValue(cfg, option, value) ==
    LET active == getActiveSection(cfg)
    IN  IF active.exc # "none"
        THEN [exc |-> active.exc, cfg |-> cfg]
        ELSE [exc |-> "none", cfg |-> set(cfg, active.section, option, value)]

\* The reads of the configuration made by connect, disconnect and
\* connected.
GetOn == getValue(config, "on", "None", PyStr(PON))
GetOff == getValue(config, "off", "None", PyStr(POFF))
GetCheckInterface == getValue(config, "check_interface", "None", PyNone)

OnCommand == GetOn.value.str
OffCommand == GetOff.value.str

(***************************************************************************)
(* shlex.split in POSIX mode, for the characters the model uses: blanks    *)
(* separate words, a single quote opens a literal run that the next single *)
(* quote closes, and the end of the line inside a quote is a ValueError.   *)
(***************************************************************************)
RECURSIVE SplitFrom(_, _, _, _, _, _)
SplitFrom(s, i, inQuote, cur, hasCur, toks) ==
    IF i > Len(s)
    THEN IF inQuote
         THEN [ok |-> FALSE, argv |-> <<>>]
         ELSE [ok |-> TRUE,
               argv |-> IF hasCur THEN Append(toks, cur) ELSE toks]
    ELSE IF inQuote
         THEN IF s[i] = "'"
              THEN SplitFrom(s, i + 1, FALSE, cur, TRUE, toks)
              ELSE SplitFrom(s, i + 1, TRUE, Append(cur, s[i]), TRUE, toks)
         ELSE IF s[i] = " "
              THEN SplitFrom(s, i + 1, FALSE, <<>>, FALSE,
                             IF hasCur THEN Append(toks, cur) ELSE toks)
              ELSE IF s[i] = "'"
                   THEN SplitFrom(s, i + 1, TRUE, cur, TRUE, toks)
                   ELSE SplitFrom(s, i + 1, FALSE, Append(cur, s[i]), TRUE,
                                  toks)

shlex_split(s) == SplitFrom(s, 1, FALSE, <<>>, FALSE, <<>>)

(***************************************************************************)
(* What the operating system answers when the child is launched, and the   *)
(* exit codes a child may end with.                                        *)
(***************************************************************************)
Launches == {"ok", "ENOENT", "EACCES"}
ExitCodes == {0, 1}

\* str(e) of the exception that reports a failed launch.
ErrText(exc) ==
    CASE exc = "ValueError" -> "No closing quotation"
      [] exc = "IndexError" -> "list index out of range"
      [] exc = "ENOENT" -> "No such file or directory"
      [] exc = "EACCES" -> "Permission denied"
      [] OTHER -> ""

\* get_status_output(argv): subprocess.run(argv) without any capture
\* argument, so p.stdout is None.  exc names the exception raised, if any.
get_status_output(argv, launch, exit) ==
    IF argv = <<>>
    THEN [exc |-> "IndexError", returncode |-> None, stdout |-> None,
          spawned |-> 0]
    ELSE IF launch # "ok"
         THEN [exc |-> launch, returncode |-> None, stdout |-> None,
               spawned |-> 0]
         ELSE [exc |-> "none", returncode |-> Some(exit), stdout |-> None,
               spawned |-> 1]

\* The try block of executeCommand: the word split and the launch.  exc is
\* the exception that leaves the block, "none" when it completes.
TryLaunch(cmdLine, launch, exit) ==
    LET split == shlex_split(cmdLine)
    IN  IF ~split.ok
        THEN [exc |-> "ValueError", returncode |-> None, stdout |-> None,
              spawned |-> 0]
        ELSE get_status_output(split.argv, launch, exit)

\* A dry run that is not honoured: the launch is always attempted.
executeCommand_noDryRun(cmdLine, dontRun, force, launch, exit) ==
    LET r == TryLaunch(cmdLine, launch, exit)
    IN  IF r.exc # "none"
        THEN [status |-> None, output |-> Some(ErrText(r.exc)),
              spawned |-> r.spawned, raised |-> FALSE]
        ELSE [status |-> r.returncode, output |-> r.stdout,
              spawned |-> r.spawned, raised |-> FALSE]

\* The word split done before the try block: its ValueError is not caught.
executeCommand_splitOutsideTry(cmdLine, dontRun, force, launch, exit) ==
    IF dontRun /\ ~force
    THEN [status |-> Some(0), output |-> Some(""), spawned |-> 0,
          raised |-> FALSE]
    ELSE LET r == TryLaunch(cmdLine, launch, exit)
         IN  IF r.exc = "ValueError"
             THEN [status |-> None, output |-> None, spawned |-> 0,
                   raised |-> TRUE]
             ELSE IF r.exc # "none"
                  THEN [status |-> None, output |-> Some(ErrText(r.exc)),
                        spawned |-> r.spawned, raised |-> FALSE]
                  ELSE [status |-> r.returncode, output |-> r.stdout,
                        spawned |-> r.spawned, raised |-> FALSE]

\* executeCommand(cmdLine, _force) under the flag DONT_RUN = dontRun: the
\* (status, output) it returns, the children it has spawned, and whether
\* an exception leaves it.
executeCommand(cmdLine, dontRun, force, launch, exit) ==
    IF dontRun /\ ~force
    THEN [status |-> Some(0), output |-> Some(""), spawned |-> 0,
          raised |-> FALSE]
    ELSE LET r == TryLaunch(cmdLine, launch, exit)
         IN  IF r.exc # "none"
             THEN [status |-> None, output |-> Some(ErrText(r.exc)),
                   spawned |-> r.spawned, raised |-> FALSE]
             ELSE [status |-> r.returncode, output |-> r.stdout,
                   spawned |-> r.spawned, raised |-> FALSE]

\* One entry of the log of executeCommand calls: the arguments, what the
\* operating system answered, and the result.
Logged(cmdLine, force, launch, exit) ==
    [cmd |-> cmdLine, force |-> force, launch |-> launch, exit |-> exit,
     res |-> executeCommand(cmdLine, DONT_RUN, force, launch, exit)]

(***************************************************************************)
(* Timer.  t is time.time() at the call.                                   *)
(***************************************************************************)
reset(tm, t) == [tm EXCEPT !.initSec = t]

\* A start that begins a new count from the epoch.
start_clears(tm) == [tm EXCEPT !.running = TRUE, !.initSec = 0]

start(tm) == [tm EXCEPT !.running = TRUE]

\* A restart that only starts: the start instant is kept.
restart_noReset(tm, t) == start(tm)

restart(tm, t) == start(reset(tm, t))

stop(tm) == [tm EXCEPT !.running = FALSE]

\* "on" taken as start(): the count is resumed, not begun again.
setStatus_startOnly(tm, status, t) ==
    IF status = "on" THEN start(tm)
    ELSE IF status = "off" THEN stop(tm)
    ELSE tm

setStatus(tm, status, t) ==
    IF status = "on" THEN restart(tm, t)
    ELSE IF status = "off" THEN stop(tm)
    ELSE tm

\* Timer.__float__ and Timer.__int__; the clock counts whole seconds, so
\* int() truncates nothing.
Timer_float(tm, t) == t - tm.initSec

Timer_int(tm, t) == Timer_float(tm, t)

\* Timer(): initSec is None, so reset() runs; running = False.
NewTimer(t) == reset([running |-> FALSE, initSec |-> 0], t)

\* The history of the Timer calls.  kind = "on": the last call was
\* setStatus("on"), made at time `at`.  kind = "stop": stop() was called
\* when initSec was `at`, and only start() and stop() were called since.
NoRun == [kind |-> "none", at |-> 0]

RunAfter(name, r, tm, t) ==
    IF name = "setStatus_on" THEN [kind |-> "on", at |-> t]
    ELSE IF name \in {"stop", "setStatus_off"}
         THEN [kind |-> "stop", at |-> tm.initSec]
    ELSE IF name = "start" /\ r.kind = "stop" THEN r
    ELSE NoRun

(***************************************************************************)
(* wait_for_iface.                                                         *)
(***************************************************************************)
\* The deadline taken without the timeout.
Deadline_noTimeout(t, timeout) == t

Deadline(t, timeout) == t + timeout

LoopCond(t, deadline) == t < deadline

Max(a, b) == IF a > b THEN a ELSE b

NoFrame ==
    [timeout |-> 0, interval |-> PollInterval, start |-> 0, deadline |-> 0,
     wakeAt |-> 0, checks |-> 0, ret |-> "done"]

\* The history of the interface is kept for direct calls of wait_for_iface.
Watching == op = "wait_for_iface" /\ pc \in {"w_loop", "w_sleep"}

\* The call wait_for_iface(dev, timeout, interval); ret is where the caller
\* resumes.
CallWait(timeout, interval, ret) ==
    /\ w' = [timeout |-> timeout, interval |-> interval, start |-> now,
             deadline |-> Deadline(now, timeout), wakeAt |-> now,
             checks |-> 0, ret |-> ret]
    /\ wres' = FALSE
    /\ pc' = "w_loop"

\* connected(timeout): the interface is read from the configuration, then
\* wait_for_iface runs with the default interval.  An exception raised by
\* the read leaves connected and its caller.
connected(timeout, ret) ==
    IF GetCheckInterface.exc # "none"
    THEN /\ pc' = "raised"
         /\ UNCHANGED probeVars
    ELSE /\ CallWait(timeout, PollInterval, ret)
         /\ UNCHANGED <<hist, upAt>>

\* One pass of the while loop up to the sleep: the loop test, then
\* os.path.exists.
WaitPoll ==
    /\ pc = "w_loop"
    /\ IF LoopCond(now, w.deadline)
       THEN IF iface
            THEN /\ w' = [w EXCEPT !.checks = @ + 1]
                 /\ wres' = TRUE
                 /\ pc' = w.ret
            ELSE /\ w' = [w EXCEPT !.checks = @ + 1,
                                   !.wakeAt = now + w.interval]
                 /\ wres' = FALSE
                 /\ pc' = "w_sleep"
       ELSE /\ w' = w
            /\ wres' = FALSE
            /\ pc' = w.ret
    /\ UNCHANGED <<now, iface, settingVars, timerVars, frameVars, hist, upAt,
                   exited>>

\* time.sleep(interval) returns.
WaitWake ==
    /\ pc = "w_sleep"
    /\ now >= w.wakeAt
    /\ pc' = "w_loop"
    /\ UNCHANGED <<now, iface, settingVars, timerVars, frameVars, probeVars,
                   exited>>

\* A second passes: between calls, or inside time.sleep.
Tick ==
    /\ now < MaxClock
    /\ pc = "idle" \/ (pc = "w_sleep" /\ now < w.wakeAt)
    /\ now' = now + 1
    /\ UNCHANGED <<iface, settingVars, timerVars, frameVars, pc, probeVars,
                   exited>>

\* The interface appears.
IfaceUp ==
    /\ ~exited
    /\ ~iface
    /\ iface' = TRUE
    /\ hist' = IF Watching
               THEN IF hist = "absent" THEN "rose" ELSE "other"
               ELSE hist
    /\ upAt' = IF Watching THEN now ELSE upAt
    /\ UNCHANGED <<now, settingVars, timerVars, frameVars, pc, w, wres, exited>>

\* The interface disappears.
IfaceDown ==
    /\ ~exited
    /\ iface
    /\ iface' = FALSE
    /\ hist' = IF Watching THEN "other" ELSE hist
    /\ UNCHANGED <<now, settingVars, timerVars, frameVars, pc, w, wres, upAt,
                   exited>>

\* The caller takes the result of the operation, or the exception that
\* left it, and moves on.
Finish ==
    /\ pc \in {"done", "raised"}
    /\ ~exited
    /\ pc' = "idle"
    /\ op' = "none"
    /\ wait' = FALSE
    /\ cmds' = <<>>
    /\ runOffIfFails' = FALSE
    /\ runOffAtExit' = FALSE
    /\ tickObs' = "none"
    /\ w' = NoFrame
    /\ wres' = FALSE
    /\ hist' = "absent"
    /\ upAt' = 0
    /\ timer0' = NewTimer(0)
    /\ UNCHANGED <<now, iface, settingVars, timerVars, exited>>

\* A direct call wait_for_iface(dev, timeout, interval).
WaitForIface ==
    /\ pc = "idle"
    /\ timer0' = timer
    /\ \E timeout \in -1 .. MaxTimeout, interval \in 1 .. MaxInterval :
          /\ now + Max(timeout, 0) + interval <= MaxClock
          /\ CallWait(timeout, interval, "done")
    /\ op' = "wait_for_iface"
    /\ hist' = IF iface THEN "present" ELSE "absent"
    /\ upAt' = now
    /\ UNCHANGED <<now, iface, settingVars, timerVars, wait, cmds, runOffIfFails,
                   runOffAtExit, tickObs, exited>>

(***************************************************************************)
(* connect and disconnect.                                                 *)
(***************************************************************************)
\* `if not connected():` of connect, `if connected():` of disconnect.
ConnectRuns(present) == ~present

DisconnectRuns(present) == present

\* How the operating system may answer a call of executeCommand: nothing
\* is asked of it in a dry run, and a child that is not launched has no
\* exit code (both are logged as "ok" and 0).
Outcomes(force) ==
    IF DONT_RUN /\ ~force
    THEN {<<"ok", 0>>}
    ELSE {<<"ok", exit>> : exit \in ExitCodes}
            \cup {<<launch, 0>> : launch \in Launches \ {"ok"}}

\* A command that is run again when it did not end with status 0.
Run_retry(cmdLine) ==
    \E o \in Outcomes(FALSE) :
        LET entry == Logged(cmdLine, FALSE, o[1], o[2])
        IN  cmds' = IF entry.res.status = Some(0)
                    THEN Append(cmds, entry)
                    ELSE cmds \o <<entry, entry>>

\* executeCommand(cmdLine) called from the operation in progress; the
\* operating system chooses how the launch and the child end.
Run(cmdLine) ==
    \E o \in Outcomes(FALSE) :
        cmds' = Append(cmds, Logged(cmdLine, FALSE, o[1], o[2]))

\* connect(wait) is called: connected() is evaluated first.
Connect ==
    /\ pc = "idle"
    /\ timer0' = timer
    /\ op' = "connect"
    /\ wait' \in BOOLEAN
    /\ connected(ConnectedTimeout, "c_probed")
    /\ UNCHANGED <<now, iface, settingVars, timerVars, cmds, runOffIfFails,
                   runOffAtExit, tickObs, exited>>

\* A connect that also starts the timer when it runs the command.
ConnectProbed_startsTimer ==
    /\ pc = "c_probed"
    /\ IF ConnectRuns(wres)
       THEN IF GetOn.exc # "none"
            THEN pc' = "raised" /\ UNCHANGED <<cmds, probeVars, timerVars>>
            ELSE /\ Run(OnCommand)
                 /\ timer' = setStatus(timer, "on", now)
                 /\ run' = RunAfter("setStatus_on", run, timer, now)
                 /\ IF wait
                    THEN connected(WaitTimeout, "c_waited")
                    ELSE pc' = "done" /\ UNCHANGED probeVars
       ELSE pc' = "done" /\ UNCHANGED <<cmds, probeVars, timerVars>>
    /\ UNCHANGED <<now, iface, settingVars, op, wait, runOffIfFails,
                   runOffAtExit, tickObs, timer0, exited>>

\* connected() has returned: the "on" command, then the wait loop or the
\* return.
ConnectProbed ==
    /\ pc = "c_probed"
    /\ IF ConnectRuns(wres)
       THEN IF GetOn.exc # "none"
            THEN pc' = "raised" /\ UNCHANGED <<cmds, probeVars>>
            ELSE /\ Run(OnCommand)
                 /\ IF wait
                    THEN connected(WaitTimeout, "c_waited")
                    ELSE pc' = "done" /\ UNCHANGED probeVars
       ELSE pc' = "done" /\ UNCHANGED <<cmds, probeVars>>
    /\ UNCHANGED <<now, iface, settingVars, timerVars, op, wait, runOffIfFails,
                   runOffAtExit, tickObs, timer0, exited>>

\* A wait that gives up after one probe, whatever it reported.
ConnectWaited_once ==
    /\ pc = "c_waited"
    /\ pc' = "done"
    /\ UNCHANGED probeVars
    /\ UNCHANGED <<now, iface, settingVars, timerVars, frameVars, exited>>

\* `while wait and not connected(timeout=20): pass`, one test of it.
ConnectWaited ==
    /\ pc = "c_waited"
    /\ IF wres
       THEN pc' = "done" /\ UNCHANGED probeVars
       ELSE connected(WaitTimeout, "c_waited")
    /\ UNCHANGED <<now, iface, settingVars, timerVars, frameVars, exited>>

\* disconnect() is called: connected() is evaluated first.
Disconnect ==
    /\ pc = "idle"
    /\ timer0' = timer
    /\ op' = "disconnect"
    /\ connected(ConnectedTimeout, "d_probed")
    /\ UNCHANGED <<now, iface, settingVars, timerVars, wait, cmds, runOffIfFails,
                   runOffAtExit, tickObs, exited>>

\* connected() has returned inside disconnect(); disconnect() returns to
\* its caller, which at shutdown ends the process.
DisconnectProbed ==
    /\ pc = "d_probed"
    /\ IF DisconnectRuns(wres)
       THEN IF GetOff.exc # "none"
            THEN pc' = "raised" /\ cmds' = cmds
            ELSE pc' = "done" /\ Run(OffCommand)
       ELSE pc' = "done" /\ cmds' = cmds
    /\ exited' = (op = "shutdown")
    /\ UNCHANGED <<now, iface, settingVars, timerVars, op, wait, runOffIfFails,
                   runOffAtExit, tickObs, timer0, probeVars>>

\* A direct call executeCommand(cmdLine, _force).
ExecuteCommand ==
    /\ pc = "idle"
    /\ timer0' = timer
    /\ op' = "executeCommand"
    /\ pc' = "done"
    /\ \E cmdLine \in CmdLines, force \in BOOLEAN :
          \E o \in Outcomes(force) :
              cmds' = <<Logged(cmdLine, force, o[1], o[2])>>
    /\ UNCHANGED <<now, iface, settingVars, timerVars, wait, runOffIfFails,
                   runOffAtExit, tickObs, probeVars, exited>>

(***************************************************************************)
(* Calls of the Timer's methods.                                           *)
(***************************************************************************)
TimerCall(name, tm) ==
    /\ pc = "idle"
    /\ op' = name
    /\ pc' = "done"
    /\ timer' = tm
    /\ run' = RunAfter(name, run, timer, now)
    /\ timer0' = timer
    /\ UNCHANGED <<now, iface, settingVars, wait, cmds, runOffIfFails,
                   runOffAtExit, tickObs, probeVars, exited>>

TimerReset == TimerCall("reset", reset(timer, now))

TimerStart == TimerCall("start", start(timer))

TimerRestart == TimerCall("restart", restart(timer, now))

TimerStop == TimerCall("stop", stop(timer))

TimerSetStatus ==
    \E status \in {"on", "off", "other"} :
        TimerCall("setStatus_" \o status, setStatus(timer, status, now))

(***************************************************************************)
(* The supervisor of section 4.5 of the specification (steps 1 to 4 and    *)
(* 6; step 5 only adds to the stored cumulative-time).  The process starts *)
(* at time 0.                                                              *)
(***************************************************************************)
InGrace(t) == t < GraceTime

\* A tick: step 2, the presence check.
SupervisorTick ==
    /\ pc = "idle"
    /\ timer0' = timer
    /\ op' = "tick"
    /\ runOffIfFails' \in BOOLEAN
    /\ connected(ConnectedTimeout, "t_probed")
    /\ UNCHANGED <<now, iface, settingVars, timerVars, wait, cmds, runOffAtExit,
                   tickObs, exited>>

\* Steps 3 and 4: the transitions, read against the timer.
SupervisorDecide ==
    /\ pc = "t_probed"
    /\ IF wres /\ ~timer.running
       THEN /\ timer' = setStatus(timer, "on", now)
            /\ run' = RunAfter("setStatus_on", run, timer, now)
            /\ tickObs' = "found"
            /\ pc' = "done"
            /\ UNCHANGED probeVars
       ELSE IF ~wres /\ timer.running
            THEN /\ timer' = setStatus(timer, "off", now)
                 /\ run' = RunAfter("setStatus_off", run, timer, now)
                 /\ tickObs' = IF InGrace(now) THEN "lostInGrace" ELSE "lost"
                 /\ IF runOffIfFails /\ ~InGrace(now)
                    THEN connected(ConnectedTimeout, "d_probed")
                    ELSE pc' = "done" /\ UNCHANGED probeVars
            ELSE /\ UNCHANGED timerVars
                 /\ tickObs' = "same"
                 /\ pc' = "done"
                 /\ UNCHANGED probeVars
    /\ UNCHANGED <<now, iface, settingVars, op, wait, cmds, runOffIfFails,
                   runOffAtExit, timer0, exited>>

\* Step 6: the process shuts down.
Shutdown ==
    /\ pc = "idle"
    /\ timer0' = timer
    /\ op' = "shutdown"
    /\ runOffAtExit' \in BOOLEAN
    /\ IF runOffAtExit' /\ timer.running
       THEN /\ connected(ConnectedTimeout, "d_probed")
            /\ exited' = (GetCheckInterface.exc # "none")
       ELSE /\ pc' = "done"
            /\ exited' = TRUE
            /\ UNCHANGED probeVars
    /\ UNCHANGED <<now, iface, settingVars, timerVars, wait, cmds, runOffIfFails,
                   tickObs>>

(***************************************************************************)
(* Calls of the methods of config.                                         *)
(***************************************************************************)
NoCall ==
    [name |-> "none", key |-> "", converter |-> "None", default |-> PyNone,
     arg |-> <<>>, exc |-> "none", value |-> PyNone, before |-> EmptyFile]

Keys == {"on", "run_off_if_fails", "cumulative_time_slot", "note"}
Defaults == {PyNone, PyStr(PON), PyBool(TRUE), PyInt(1)}
NewOptions == {"on", "note"}
NewValues == {<<>>, <<"1">>}

ConfigCall(c, cfg) ==
    /\ pc = "idle"
    /\ call' = [c EXCEPT !.before = config]
    /\ config' = cfg
    /\ UNCHANGED <<now, iface, DONT_RUN, timerVars, frameVars, pc, probeVars,
                   exited>>

GetActiveSection ==
    LET r == getActiveSection(config)
    IN  ConfigCall([NoCall EXCEPT !.name = "getActiveSection",
                                  !.exc = r.exc,
                                  !.value = IF r.exc = "none"
                                            THEN PyStr(r.section)
                                            ELSE PyNone],
                   config)

GetValue ==
    \E key \in Keys, converter \in Converters, default \in Defaults :
        LET r == getValue(config, key, converter, default)
        IN  ConfigCall([NoCall EXCEPT !.name = "getValue", !.key = key,
                                      !.converter = converter,
                                      !.default = default,
                                      !.exc = r.exc, !.value = r.value],
                       config)

SetValue ==
    \E option \in NewOptions, value \in NewValues :
        LET r == setValue(config, option, value)
        IN  ConfigCall([NoCall EXCEPT !.name = "setValue", !.key = option,
                                      !.arg = value, !.exc = r.exc],
                       r.cfg)

(***************************************************************************)
(* The specifications.  Init is the module once loaded, a Timer just       *)
(* created, and DONT_RUN set as line 35 or as line 36 sets it.             *)
(***************************************************************************)
Loaded ==
    /\ now = 0
    /\ iface \in BOOLEAN
    /\ DONT_RUN \in BOOLEAN
    /\ call = NoCall
    /\ timer = NewTimer(0)
    /\ run = NoRun
    /\ timer0 = NewTimer(0)
    /\ op = "none"
    /\ pc = "idle"
    /\ w = NoFrame
    /\ wres = FALSE
    /\ wait = FALSE
    /\ cmds = <<>>
    /\ hist = "absent"
    /\ upAt = 0
    /\ exited = FALSE
    /\ runOffIfFails = FALSE
    /\ runOffAtExit = FALSE
    /\ tickObs = "none"

Init == Loaded /\ config \in Configs

Next ==
    \/ Tick
    \/ IfaceUp
    \/ IfaceDown
    \/ Finish
    \/ WaitForIface
    \/ WaitPoll
    \/ WaitWake
    \/ Connect
    \/ ConnectProbed
    \/ ConnectWaited
    \/ Disconnect
    \/ DisconnectProbed
    \/ ExecuteCommand
    \/ TimerReset
    \/ TimerStart
    \/ TimerRestart
    \/ TimerStop
    \/ TimerSetStatus
    \/ SupervisorTick
    \/ SupervisorDecide
    \/ Shutdown

Spec == Init /\ [][Next]_vars

\* wait_for_iface called directly and nothing else; the program runs on
\* and the clock advances.
ProbeNext ==
    \/ Tick
    \/ IfaceUp
    \/ IfaceDown
    \/ Finish
    \/ WaitForIface
    \/ WaitPoll
    \/ WaitWake

FairProbeSpec ==
    /\ Init
    /\ [][ProbeNext]_vars
    /\ WF_vars(Tick)
    /\ WF_vars(WaitPoll)
    /\ WF_vars(WaitWake)

\* The methods of config called one after another, on any of the files.
ConfigInit == Loaded /\ config \in ConfigFiles

ConfigNext ==
    \/ GetActiveSection
    \/ GetValue
    \/ SetValue

ConfigSpec == ConfigInit /\ [][ConfigNext]_vars

(***************************************************************************)
(* The claims.                                                             *)
(***************************************************************************)
\* The executeCommand calls of the operation in progress that ran cmdLine.
Count(cmdLine) == Cardinality({i \in DOMAIN cmds : cmds[i].cmd = cmdLine})

\* The exception a launch of cmdLine ends with, "none" when it succeeds.
LaunchFailure(cmdLine, launch) ==
    IF ~shlex_split(cmdLine).ok THEN "ValueError"
    ELSE IF shlex_split(cmdLine).argv = <<>> THEN "IndexError"
    ELSE IF launch # "ok" THEN launch
    ELSE "none"

\* C1: whenever the timer is not running, the elapsed seconds it reports
\* as an integer and as a float are 0, whatever the stored start instant.
C1_StoppedReportsZero ==
    ~timer.running =>
        /\ Timer_float(timer, now) = 0
        /\ Timer_int(timer, now) = 0

\* The operation is over: it has returned, or an exception has left it.
Ended == pc \in {"done", "raised"}

\* C2: when connect(wait=false) is over it has run the "on" command
\* exactly once if its presence probe reported the interface absent and no
\* command if it reported it present; connect never runs the "off" command.
C2_ConnectRunsOnOnce ==
    /\ (op = "connect" /\ ~wait /\ Ended /\ w.ret = "c_probed") =>
          IF wres
          THEN cmds = <<>>
          ELSE Len(cmds) = 1 /\ cmds[1].cmd = OnCommand
    /\ op = "connect" => Count(OffCommand) = 0

\* C3: when disconnect() is over it has run the "off" command exactly once
\* if its presence probe reported the interface present, and no command if
\* it reported it absent.
C3_DisconnectRunsOffOnce ==
    (op = "disconnect" /\ Ended /\ w.ret = "d_probed") =>
        IF wres
        THEN Len(cmds) = 1 /\ cmds[1].cmd = OffCommand
        ELSE cmds = <<>>

\* C4: with DONT_RUN set and force false, executeCommand launches no child
\* for any command line and returns status 0 with empty output.
C4_DryRun ==
    \A i \in DOMAIN cmds :
        (DONT_RUN /\ ~cmds[i].force) =>
            /\ cmds[i].res.spawned = 0
            /\ cmds[i].res.status = Some(0)
            /\ cmds[i].res.output = Some("")
            /\ ~cmds[i].res.raised

C4_Witness ==
    /\ DONT_RUN
    /\ op = "executeCommand" /\ pc = "done"
    /\ ~cmds[1].force
    /\ cmds[1].cmd = PON
    /\ cmds[1].launch = "ok"

\* C5: when the launch of the command fails (the line cannot be split into
\* words, the executable is missing or may not be executed), executeCommand
\* returns status None and the description of the failure as output, and
\* no exception leaves it.
C5_LaunchFailureReported ==
    \A i \in DOMAIN cmds :
        LET failure == LaunchFailure(cmds[i].cmd, cmds[i].launch)
        IN  ((~DONT_RUN \/ cmds[i].force) /\ failure # "none") =>
                /\ ~cmds[i].res.raised
                /\ cmds[i].res.status = None
                /\ cmds[i].res.output = Some(ErrText(failure))

C5_Witness ==
    /\ ~DONT_RUN
    /\ op = "executeCommand" /\ pc = "done"
    /\ ~shlex_split(cmds[1].cmd).ok
    /\ cmds[1].res.status = None

\* C6: wait_for_iface called with a timeout <= 0 has checked the interface
\* at least once when it returns, and returns true when the interface
\* exists at the call.
C6_ChecksOnce ==
    (op = "wait_for_iface" /\ pc = "done" /\ w.timeout <= 0) =>
        /\ w.checks >= 1
        /\ hist = "present" => wres

\* C7: when the interface is absent at the call of wait_for_iface with a
\* timeout T > 0, appears at a time t < T after the call and stays, the
\* call returns true, within one poll interval of t.
C7_AppearsBeforeTimeout ==
    (/\ op = "wait_for_iface" /\ pc = "done"
     /\ w.timeout > 0
     /\ hist = "rose"
     /\ upAt < w.start + w.timeout) =>
        /\ wres
        /\ now <= upAt + w.interval

\* C8: wait_for_iface with a timeout T > 0 against an interface that is
\* never present returns false, not before T seconds have passed since the
\* call, and it does return.
C8_NeverPresent ==
    /\ []((/\ op = "wait_for_iface" /\ pc = "done"
           /\ w.timeout > 0
           /\ hist = "absent") =>
              /\ ~wres
              /\ now >= w.start + w.timeout)
    /\ (op = "wait_for_iface" /\ pc # "done" /\ w.timeout > 0)
          ~> (pc = "done" \/ hist # "absent")

C8_Witness ==
    /\ op = "wait_for_iface" /\ pc = "done"
    /\ w.timeout >= 2
    /\ hist = "absent"
    /\ ~wres
    /\ w.checks >= 2

\* C11: when restart() or setStatus("on") returns, whatever the timer was
\* before, the timer is running, its start instant is the current time and
\* the elapsed seconds read at once are 0.
C11_RestartReadsZero ==
    (op \in {"restart", "setStatus_on"} /\ pc = "done") =>
        /\ timer.running
        /\ timer.initSec = now
        /\ Timer_float(timer, now) = 0
        /\ Timer_int(timer, now) = 0

C11_Witness ==
    /\ op \in {"restart", "setStatus_on"} /\ pc = "done"
    /\ ~timer0.running
    /\ timer0.initSec < now
    /\ timer.running

\* C12: as long as the last Timer call is a setStatus("on"), the elapsed
\* seconds the timer reports are the time since that call, are not
\* negative, and do not decrease from one state to the next.
C12_OnRunCounts ==
    /\ [](run.kind = "on" =>
             /\ Timer_float(timer, now) = now - run.at
             /\ Timer_float(timer, now) >= 0)
    /\ [][(run.kind = "on" /\ run' = run) =>
             Timer_float(timer', now') >= Timer_float(timer, now)]_vars

C12_Witness ==
    /\ run.kind = "on"
    /\ timer.running
    /\ now >= run.at + 2
    /\ op = "wait_for_iface" /\ pc = "done"

\* C13: when connect(wait=true), called with the interface absent, has
\* returned, its last presence probe has reported the interface present;
\* a probe of connect reports it present only on seeing it, and the wait
\* loop is left only after such a report.
C13_ConnectWaits ==
    /\ []((op = "connect" /\ wait /\ pc = "done") => wres)
    /\ [][(op = "connect" /\ ~wres /\ wres') => (iface /\ iface')]_vars
    /\ [][(pc = "c_waited" /\ pc' = "done") => wres]_vars

C13_Witness ==
    /\ op = "connect" /\ wait /\ pc = "done"
    /\ Len(cmds) = 1
    /\ w.timeout = WaitTimeout
    /\ w.start >= ConnectedTimeout + WaitTimeout

\* C14: a call of executeCommand that is not a dry run and whose child is
\* launched returns the exit status of the child and an output that is a
\* string.
C14_CapturedOutput ==
    \A i \in DOMAIN cmds :
        ((~DONT_RUN \/ cmds[i].force)
            /\ LaunchFailure(cmds[i].cmd, cmds[i].launch) = "none") =>
                /\ cmds[i].res.status = Some(cmds[i].exit)
                /\ cmds[i].res.output # None

\* The section the 'active' option of cfg points at: the section it names
\* when that section exists, DEFAULT when it does not or when the option
\* is not set.
Target(cfg) ==
    LET named == Lookup(cfg.defaults, "active")
    IN  IF named # {} /\ has_section(cfg, CHOOSE v \in named : TRUE)
        THEN CHOOSE v \in named : TRUE
        ELSE DEFAULT

\* C15: getActiveSection returns, with no exception, the section that
\* 'active' names, or DEFAULT when that section does not exist or 'active'
\* is not set; setValue sets its option in that section.
C15_ActiveOrDefault ==
    /\ call.name = "getActiveSection" =>
            /\ call.exc = "none"
            /\ call.value = PyStr(Target(call.before))
    /\ call.name = "setValue" =>
            /\ call.exc = "none"
            /\ config = set(call.before, Target(call.before), call.key,
                            call.arg)

\* C16: getValue returns the default it was given, with no exception, when
\* the key is in neither the active section nor DEFAULT, when the stored
\* value is empty, and when the converter fails on the stored value.
C16_DefaultReturned ==
    call.name = "getValue" =>
        LET got == get(call.before, Target(call.before), call.key)
        IN  (\/ got.exc # "none"
             \/ got.value = <<>>
             \/ /\ call.converter # "None"
                /\ Convert(call.converter, got.value).exc # "none") =>
                    /\ call.exc = "none"
                    /\ call.value = call.default

\* C17: stop() and start() leave the start instant as it was and reset()
\* leaves the running flag as it was; after stop() and then start() the
\* timer runs and reports the time since the start instant that was in
\* effect at the stop.
C17_StopStartResumes ==
    /\ (op \in {"stop", "start"} /\ pc = "done") =>
            timer.initSec = timer0.initSec
    /\ (op = "reset" /\ pc = "done") => timer.running = timer0.running
    /\ (op = "start" /\ pc = "done" /\ run.kind = "stop") =>
            /\ timer.running
            /\ Timer_float(timer, now) = now - run.at

C17_Witness ==
    /\ op = "start" /\ pc = "done"
    /\ run.kind = "stop"
    /\ ~timer0.running
    /\ 0 < run.at /\ run.at < now

\* C18: a call of wait_for_iface with a timeout T > 0 has returned at most
\* T seconds after it was made, whatever the poll interval.
C18_BoundedByTimeout ==
    (op = "wait_for_iface" /\ pc = "done" /\ w.timeout > 0) =>
        now - w.start <= w.timeout

\* C19: connect and disconnect run at most one command per call, whatever
\* its outcome; a command is run only at the presence test, on the report
\* of the probe alone, and the wait loop of connect never runs one.
C19_OutcomeIgnored ==
    /\ [](op \in {"connect", "disconnect"} => Len(cmds) <= 1)
    /\ [][(op \in {"connect", "disconnect"} /\ cmds' # cmds) =>
             \/ op = "connect" /\ pc = "c_probed" /\ ~wres
             \/ op = "disconnect" /\ pc = "d_probed" /\ wres
             \/ pc' = "idle"]_vars
    /\ [][(op = "connect" /\ pc = "c_waited" /\ pc' # pc) =>
             pc' = IF wres THEN "done" ELSE "w_loop"]_vars

C19_Witness ==
    /\ op = "connect" /\ wait /\ pc = "done"
    /\ Len(cmds) = 1
    /\ cmds[1].res.status = None
    /\ w.start >= ConnectedTimeout + WaitTimeout

\* C20: throughout a call of connect or disconnect the timer is as it was
\* when the call was made.
C20_TimerUntouched ==
    op \in {"connect", "disconnect"} => timer = timer0

C20_Witness ==
    /\ op = "connect" /\ pc = "done"
    /\ Len(cmds) = 1
    /\ timer.running
    /\ 0 < timer.initSec /\ timer.initSec < now

\* C9: at shutdown the "off" command has been run exactly once when
\* run-off-at-exit is true and the timer is running, and not at all when
\* run-off-at-exit is false.
C9_OffAtExit ==
    exited =>
        Count(OffCommand) = IF runOffAtExit /\ timer.running THEN 1 ELSE 0

\* C10: with run-off-if-fails true, a tick that finds the interface gone
\* after the grace period has run the "off" command exactly once and has
\* stopped the timer; a tick that finds it gone within the grace period
\* has not run the "off" command.
C10_OffWhenLost ==
    (op = "tick" /\ pc = "done" /\ runOffIfFails) =>
        /\ tickObs = "lost" => (Count(OffCommand) = 1 /\ ~timer.running)
        /\ tickObs = "lostInGrace" => Count(OffCommand) = 0

====
